---- MODULE Spec2Model ----
(***************************************************************************)
(* Balance and wallet-status aggregation of the full-service wallet        *)
(* (full-service/src/service/balance.rs).                                  *)
(*                                                                         *)
(* The wallet database (Account, ViewOnlyAccount, AssignedSubaddress,      *)
(* ViewOnlySubaddress, Txo, ViewOnlyTxo) is the state.  The sync pipeline  *)
(* and the account/address services write it; the six BalanceService       *)
(* methods read it and leave their answer in `reply`.                      *)
(*                                                                         *)
(* Integer widths are scaled: a 64-bit word is VALUE_BITS bits wide and a  *)
(* 128-bit word twice that, so that the casts `as u64` and `as u128` of    *)
(* the signed `value` column and the u128 accumulators behave as in the    *)
(* code while staying inside TLC's integers.                               *)
(***************************************************************************)
EXTENDS Integers, FiniteSets, Sequences, Bags, TLC

(***************************************************************************)
(* Bounds of the model.                                                    *)
(***************************************************************************)
MaxTxos == 2
MaxBlock == 2
\* Writes of the sync pipeline that fall between the reads of one call.
MaxInterleavedWrites == 1

(***************************************************************************)
(* Identities.  An address is the pair <<owning account, subaddress        *)
(* index>>; its b58 string is not modelled further.                        *)
(***************************************************************************)
AccountIds == {"a1", "a2"}
ViewOnlyAccountIds == {"v1"}
AllIds == AccountIds \cup ViewOnlyAccountIds
DEFAULT_SUBADDRESS_INDEX == 0
SubaddressIndexes == {0, 1}
Addresses == AllIds \X SubaddressIndexes

(***************************************************************************)
(* Machine words.  Txo.value is a signed column (i64) holding a u64.       *)
(***************************************************************************)
VALUE_BITS == 3
U64Mod == 2 ^ VALUE_BITS
U128Mod == 2 ^ (2 * VALUE_BITS)
\* The stored (signed) images of the amounts 1 and U64Mod - 2 (top bit set).
StoredValues == {1, -2}

\* `x as u64` for x: i64 (reinterprets the bits), then `as u128` zero-extends.
AsU64(x) == x % U64Mod
\* `x as u128` for x: i64 (sign-extends).
AsU128(x) == x % U128Mod

VARIABLES
    accounts,               \* Account table: account id -> next_block_index
    view_only_accounts,     \* ViewOnlyAccount table: id -> next_block_index
    assigned_subaddresses,  \* AssignedSubaddress table: set of addresses
    view_only_subaddresses, \* ViewOnlySubaddress table: set of addresses
    txos,                   \* Txo table: bag of rows
    view_only_txos,         \* ViewOnlyTxo table: bag of rows
    reply,                  \* the answer of the last BalanceService call
    inflight                \* a get_balance_for_account call between its reads

store == <<accounts, view_only_accounts, assigned_subaddresses,
           view_only_subaddresses, txos, view_only_txos>>
vars == <<accounts, view_only_accounts, assigned_subaddresses,
          view_only_subaddresses, txos, view_only_txos, reply, inflight>>

NoReply == [kind |-> "none"]

\* Option::None for the optional address argument and the optional
\* subaddress_index column.
None == <<>>
NoSubaddress == 0 - 1

\* `conn`: the tables a database connection reads.
Conn == [accounts |-> accounts,
         view_only_accounts |-> view_only_accounts,
         assigned_subaddresses |-> assigned_subaddresses,
         view_only_subaddresses |-> view_only_subaddresses,
         txos |-> txos,
         view_only_txos |-> view_only_txos]

(***************************************************************************)
(* Bags of rows.                                                           *)
(***************************************************************************)
\* The chosen rows of bag B, with their multiplicities.
FilterBag(B, rows) == [t \in rows |-> B[t]]

\* .iter().map(|t| (t.value as u64) as u128).sum::<u128>(), before wrapping.
RECURSIVE SumValueAsU64(_)
SumValueAsU64(B) ==
    IF DOMAIN B = {} THEN 0
    ELSE LET t == CHOOSE u \in DOMAIN B : TRUE
         IN  B[t] * AsU64(t.value)
             + SumValueAsU64([u \in DOMAIN B \ {t} |-> B[u]])

\* .iter().map(|t| t.value as u128).sum::<u128>(), before wrapping.
RECURSIVE SumValueAsU128(_)
SumValueAsU128(B) ==
    IF DOMAIN B = {} THEN 0
    ELSE LET t == CHOOSE u \in DOMAIN B : TRUE
         IN  B[t] * AsU128(t.value)
             + SumValueAsU128([u \in DOMAIN B \ {t} |-> B[u]])

(***************************************************************************)
(* The store's classifying queries (crate::db::txo, crate::db::            *)
(* view_only_txo), from the lifecycle rules: a consumed output is Spent    *)
(* when the consumption is confirmed and Pending when it is only observed; *)
(* an unconsumed output is Unspent at a tracked subaddress and Orphaned    *)
(* otherwise; Secreted rows are the ones carrying the secreted marker.     *)
(***************************************************************************)
TrackedIndexes(table, account_id_hex) ==
    {a[2] : a \in {b \in table : b[1] = account_id_hex}}

InScope(t, account_id_hex, assigned_subaddress_b58) ==
    /\ t.account_id_hex = account_id_hex
    /\ \/ assigned_subaddress_b58 = None
       \/ /\ assigned_subaddress_b58[1] = account_id_hex
          /\ assigned_subaddress_b58[2] = t.subaddress_index

Txo_list_unspent(account_id_hex, assigned_subaddress_b58, conn) ==
    LET P(t) == /\ InScope(t, account_id_hex, assigned_subaddress_b58)
                /\ ~t.secreted
                /\ t.consumed = "none"
                /\ t.subaddress_index \in
                      TrackedIndexes(conn.assigned_subaddresses, account_id_hex)
    IN  FilterBag(conn.txos, {u \in DOMAIN conn.txos : P(u)})

Txo_list_pending(account_id_hex, assigned_subaddress_b58, conn) ==
    LET P(t) == /\ InScope(t, account_id_hex, assigned_subaddress_b58)
                /\ ~t.secreted
                /\ t.consumed = "observed"
    IN  FilterBag(conn.txos, {u \in DOMAIN conn.txos : P(u)})

Txo_list_spent(account_id_hex, assigned_subaddress_b58, conn) ==
    LET P(t) == /\ InScope(t, account_id_hex, assigned_subaddress_b58)
                /\ ~t.secreted
                /\ t.consumed = "confirmed"
    IN  FilterBag(conn.txos, {u \in DOMAIN conn.txos : P(u)})

Txo_list_secreted(account_id_hex, conn) ==
    LET P(t) == t.account_id_hex = account_id_hex /\ t.secreted
    IN  FilterBag(conn.txos, {u \in DOMAIN conn.txos : P(u)})

Txo_list_orphaned(account_id_hex, conn) ==
    LET P(t) == /\ t.account_id_hex = account_id_hex
                /\ ~t.secreted
                /\ t.consumed = "none"
                /\ t.subaddress_index \notin
                      TrackedIndexes(conn.assigned_subaddresses, account_id_hex)
    IN  FilterBag(conn.txos, {u \in DOMAIN conn.txos : P(u)})

ViewOnlyTxo_list_unspent(account_id_hex, assigned_subaddress_b58, conn) ==
    LET P(t) == /\ InScope(t, account_id_hex, assigned_subaddress_b58)
                /\ t.consumed = "none"
                /\ t.subaddress_index \in
                      TrackedIndexes(conn.view_only_subaddresses, account_id_hex)
    IN  FilterBag(conn.view_only_txos, {u \in DOMAIN conn.view_only_txos : P(u)})

ViewOnlyTxo_list_pending(account_id_hex, assigned_subaddress_b58, conn) ==
    LET P(t) == /\ InScope(t, account_id_hex, assigned_subaddress_b58)
                /\ t.consumed = "observed"
    IN  FilterBag(conn.view_only_txos, {u \in DOMAIN conn.view_only_txos : P(u)})

ViewOnlyTxo_list_spent(account_id_hex, assigned_subaddress_b58, conn) ==
    LET P(t) == /\ InScope(t, account_id_hex, assigned_subaddress_b58)
                /\ t.consumed = "confirmed"
    IN  FilterBag(conn.view_only_txos, {u \in DOMAIN conn.view_only_txos : P(u)})

ViewOnlyTxo_list_orphaned(account_id_hex, conn) ==
    LET P(t) == /\ t.account_id_hex = account_id_hex
                /\ t.consumed = "none"
                /\ t.subaddress_index \notin
                      TrackedIndexes(conn.view_only_subaddresses, account_id_hex)
    IN  FilterBag(conn.view_only_txos, {u \in DOMAIN conn.view_only_txos : P(u)})

(***************************************************************************)
(* Txo::list_spendable(..).max_spendable_in_wallet: the largest            *)
(* min(MAX_INPUTS, n) unspent values in scope, less one fee.                *)
(***************************************************************************)
MAX_INPUTS == 16
FEE == 1

RECURSIVE SumLargest(_, _)
SumLargest(B, k) ==
    IF k = 0 \/ DOMAIN B = {} THEN 0
    ELSE LET t == CHOOSE u \in DOMAIN B :
                      \A w \in DOMAIN B : AsU64(w.value) <= AsU64(u.value)
             rest == IF B[t] = 1 THEN [u \in DOMAIN B \ {t} |-> B[u]]
                     ELSE [B EXCEPT ![t] = @ - 1]
         IN  AsU64(t.value) + SumLargest(rest, k - 1)

max_spendable_in_wallet(account_id_hex, assigned_subaddress_b58, conn) ==
    LET total == SumLargest(
            Txo_list_unspent(account_id_hex, assigned_subaddress_b58, conn),
            MAX_INPUTS)
    IN  IF total > FEE THEN total - FEE ELSE 0

(***************************************************************************)
(* Arithmetic outcomes.  An overflowing `+`, `-` or sum panics in a build  *)
(* with overflow checks and wraps in one without; overflow_checks is the   *)
(* build's choice.                                                         *)
(***************************************************************************)
Panic == [tag |-> "panic"]

\* The five lifecycle sums of get_balance_inner, before wrapping.
\* Variant: the unconsumed outputs at untracked subaddresses summed into
\* unspent as well.
Balance_unspent_with_orphaned(account_id_hex, assigned_subaddress_b58, conn) ==
    SumValueAsU64(Txo_list_unspent(account_id_hex, assigned_subaddress_b58, conn))
        + SumValueAsU64(Txo_list_orphaned(account_id_hex, conn))

Balance_unspent(account_id_hex, assigned_subaddress_b58, conn) ==
    SumValueAsU64(Txo_list_unspent(account_id_hex, assigned_subaddress_b58, conn))

Balance_spent(account_id_hex, assigned_subaddress_b58, conn) ==
    SumValueAsU64(Txo_list_spent(account_id_hex, assigned_subaddress_b58, conn))

\* Variant: the pending sum taken over the whole account, whatever address
\* was asked for.
Balance_pending_ignoring_address(account_id_hex, assigned_subaddress_b58, conn) ==
    SumValueAsU64(Txo_list_pending(account_id_hex, None, conn))

Balance_pending(account_id_hex, assigned_subaddress_b58, conn) ==
    SumValueAsU64(Txo_list_pending(account_id_hex, assigned_subaddress_b58, conn))

Balance_secreted(account_id_hex, assigned_subaddress_b58, conn) ==
    IF assigned_subaddress_b58 # None THEN 0
    ELSE SumValueAsU128(Txo_list_secreted(account_id_hex, conn))

Balance_orphaned(account_id_hex, assigned_subaddress_b58, conn) ==
    IF assigned_subaddress_b58 # None THEN 0
    ELSE SumValueAsU128(Txo_list_orphaned(account_id_hex, conn))

\* The tuple (unspent, max_spendable, pending, spent, secreted, orphaned)
\* built from sums that may have overflowed.
InnerResult(unspent, max_spendable, pending, spent, secreted, orphaned, overflow_checks) ==
    IF /\ overflow_checks
       /\ \E x \in {unspent, pending, spent, secreted, orphaned} : x >= U128Mod
    THEN Panic
    ELSE [tag |-> "ok",
          unspent |-> unspent % U128Mod,
          max_spendable |-> max_spendable,
          pending |-> pending % U128Mod,
          spent |-> spent % U128Mod,
          secreted |-> secreted % U128Mod,
          orphaned |-> orphaned % U128Mod]

\* Variant: list_spendable asked for the whole account, whatever address
\* the sums are for.
get_balance_inner_spendable_unscoped(account_id_hex, assigned_subaddress_b58, conn, overflow_checks) ==
    InnerResult(
        Balance_unspent(account_id_hex, assigned_subaddress_b58, conn),
        max_spendable_in_wallet(account_id_hex, None, conn),
        Balance_pending(account_id_hex, assigned_subaddress_b58, conn),
        Balance_spent(account_id_hex, assigned_subaddress_b58, conn),
        Balance_secreted(account_id_hex, assigned_subaddress_b58, conn),
        Balance_orphaned(account_id_hex, assigned_subaddress_b58, conn),
        overflow_checks)

get_balance_inner(account_id_hex, assigned_subaddress_b58, conn, overflow_checks) ==
    InnerResult(
        Balance_unspent(account_id_hex, assigned_subaddress_b58, conn),
        max_spendable_in_wallet(account_id_hex, assigned_subaddress_b58, conn),
        Balance_pending(account_id_hex, assigned_subaddress_b58, conn),
        Balance_spent(account_id_hex, assigned_subaddress_b58, conn),
        Balance_secreted(account_id_hex, assigned_subaddress_b58, conn),
        Balance_orphaned(account_id_hex, assigned_subaddress_b58, conn),
        overflow_checks)

\* Variant: the unspent view-only funds reported as spendable.
get_view_only_balance_inner_spendable(account_id_hex, assigned_subaddress_b58, conn, overflow_checks) ==
    InnerResult(
        SumValueAsU64(ViewOnlyTxo_list_unspent(
            account_id_hex, assigned_subaddress_b58, conn)),
        SumValueAsU64(ViewOnlyTxo_list_unspent(
            account_id_hex, assigned_subaddress_b58, conn)),
        SumValueAsU64(ViewOnlyTxo_list_pending(
            account_id_hex, assigned_subaddress_b58, conn)),
        SumValueAsU64(ViewOnlyTxo_list_spent(
            account_id_hex, assigned_subaddress_b58, conn)),
        0,
        SumValueAsU64(ViewOnlyTxo_list_orphaned(account_id_hex, conn)),
        overflow_checks)

get_view_only_balance_inner(account_id_hex, assigned_subaddress_b58, conn, overflow_checks) ==
    InnerResult(
        SumValueAsU64(ViewOnlyTxo_list_unspent(
            account_id_hex, assigned_subaddress_b58, conn)),
        0,
        SumValueAsU64(ViewOnlyTxo_list_pending(
            account_id_hex, assigned_subaddress_b58, conn)),
        SumValueAsU64(ViewOnlyTxo_list_spent(
            account_id_hex, assigned_subaddress_b58, conn)),
        0,
        SumValueAsU64(ViewOnlyTxo_list_orphaned(account_id_hex, conn)),
        overflow_checks)

(***************************************************************************)
(* The Ledger Height Oracle as one call finds it: whether                  *)
(* get_network_block_height() and ledger_db.num_blocks() succeed, and the  *)
(* network height.  The local height is passed through to the caller and   *)
(* is not modelled further.                                                *)
(***************************************************************************)
OracleReadings ==
    {[net_ok |-> TRUE, height |-> h, local_ok |-> l] :
        h \in 0..MaxBlock, l \in BOOLEAN}
        \cup {[net_ok |-> FALSE, height |-> 0, local_ok |-> TRUE]}

(***************************************************************************)
(* Replies.  An error reply also says whether the oracle's reads of that   *)
(* call succeeded.                                                         *)
(***************************************************************************)
ErrorReply(op, arg, error, oracle) ==
    [kind |-> "error", op |-> op, arg |-> arg, error |-> error,
     oracle_ok |-> oracle.net_ok /\ oracle.local_ok]

PanicReply(op, arg) == [kind |-> "panic", op |-> op, arg |-> arg]

\* Ok(Balance { .. }) from the inner tuple.
BalanceReply(op, arg, inner, network_block_height, next_block_index) ==
    [kind |-> "balance", op |-> op, arg |-> arg,
     balance |-> [unspent |-> inner.unspent,
                  max_spendable |-> inner.max_spendable,
                  pending |-> inner.pending,
                  spent |-> inner.spent,
                  secreted |-> inner.secreted,
                  orphaned |-> inner.orphaned,
                  network_block_height |-> network_block_height,
                  synced_blocks |-> AsU64(next_block_index)]]

(***************************************************************************)
(* BalanceService for WalletService: each method as the reply it gives on  *)
(* the tables `conn`, the oracle's answers and the build's                 *)
(* overflow_checks.  The reads are in the code's order, so the first       *)
(* failing one decides the error.                                          *)
(***************************************************************************)
\* get_balance_for_account after get_balance_inner: the oracle's reads,
\* Account::get and the Balance.
account_balance_reply(account_id, inner, conn, oracle) ==
    LET op == "get_balance_for_account"
    IN  IF inner.tag = "panic" THEN PanicReply(op, account_id)
        ELSE IF ~oracle.net_ok
             THEN ErrorReply(op, account_id, "NetworkBlockHeight", oracle)
        ELSE IF ~oracle.local_ok
             THEN ErrorReply(op, account_id, "LedgerDB", oracle)
        ELSE IF account_id \notin DOMAIN conn.accounts
             THEN ErrorReply(op, account_id, "Database(AccountNotFound)", oracle)
        ELSE BalanceReply(op, account_id, inner, oracle.height,
                          conn.accounts[account_id])

get_balance_for_account(account_id, conn, oracle, overflow_checks) ==
    account_balance_reply(
        account_id,
        get_balance_inner(account_id, None, conn, overflow_checks),
        conn, oracle)

get_balance_for_view_only_account(account_id, conn, oracle, overflow_checks) ==
    LET op == "get_balance_for_view_only_account"
        inner == get_view_only_balance_inner(account_id, None, conn,
                                             overflow_checks)
    IN  IF inner.tag = "panic" THEN PanicReply(op, account_id)
        ELSE IF ~oracle.net_ok
             THEN ErrorReply(op, account_id, "NetworkBlockHeight", oracle)
        ELSE IF ~oracle.local_ok
             THEN ErrorReply(op, account_id, "LedgerDB", oracle)
        ELSE IF account_id \notin DOMAIN conn.view_only_accounts
             THEN ErrorReply(op, account_id,
                             "Database(ViewOnlyAccountNotFound)", oracle)
        ELSE BalanceReply(op, account_id, inner, oracle.height,
                          conn.view_only_accounts[account_id])

\* Variant: without the AssignedSubaddress::get lookup.
get_balance_for_address_without_lookup(address, conn, oracle, overflow_checks) ==
    LET op == "get_balance_for_address"
        account_id_hex == address[1]
        inner == get_balance_inner(account_id_hex, address, conn, overflow_checks)
    IN  IF ~oracle.net_ok
        THEN ErrorReply(op, address, "NetworkBlockHeight", oracle)
        ELSE IF ~oracle.local_ok
             THEN ErrorReply(op, address, "LedgerDB", oracle)
        ELSE IF inner.tag = "panic" THEN PanicReply(op, address)
        ELSE IF account_id_hex \notin DOMAIN conn.accounts
             THEN ErrorReply(op, address, "Database(AccountNotFound)", oracle)
        ELSE BalanceReply(op, address, inner, oracle.height,
                          conn.accounts[account_id_hex])

get_balance_for_address(address, conn, oracle, overflow_checks) ==
    LET op == "get_balance_for_address"
        account_id_hex == address[1]
        inner == get_balance_inner(account_id_hex, address, conn, overflow_checks)
    IN  IF ~oracle.net_ok
        THEN ErrorReply(op, address, "NetworkBlockHeight", oracle)
        ELSE IF ~oracle.local_ok
             THEN ErrorReply(op, address, "LedgerDB", oracle)
        ELSE IF address \notin conn.assigned_subaddresses
             THEN ErrorReply(op, address,
                             "Database(AssignedSubaddressNotFound)", oracle)
        ELSE IF inner.tag = "panic" THEN PanicReply(op, address)
        ELSE IF account_id_hex \notin DOMAIN conn.accounts
             THEN ErrorReply(op, address, "Database(AccountNotFound)", oracle)
        ELSE BalanceReply(op, address, inner, oracle.height,
                          conn.accounts[account_id_hex])

get_balance_for_view_only_address(address, conn, oracle, overflow_checks) ==
    LET op == "get_balance_for_view_only_address"
        account_id_hex == address[1]
        inner == get_view_only_balance_inner(account_id_hex, address, conn,
                                             overflow_checks)
    IN  IF address \notin conn.view_only_subaddresses
        THEN ErrorReply(op, address,
                        "Database(ViewOnlySubaddressNotFound)", oracle)
        ELSE IF inner.tag = "panic" THEN PanicReply(op, address)
        ELSE IF ~oracle.net_ok
             THEN ErrorReply(op, address, "NetworkBlockHeight", oracle)
        ELSE IF ~oracle.local_ok
             THEN ErrorReply(op, address, "LedgerDB", oracle)
        ELSE IF account_id_hex \notin DOMAIN conn.view_only_accounts
             THEN ErrorReply(op, address,
                             "Database(ViewOnlyAccountNotFound)", oracle)
        ELSE BalanceReply(op, address, inner, oracle.height,
                          conn.view_only_accounts[account_id_hex])

\* u64::saturating_sub and std::cmp::min over a non-empty set.
saturating_sub(x, y) == IF x > y THEN x - y ELSE 0
Min(S) == CHOOSE x \in S : \A y \in S : x <= y

RECURSIVE SumField(_, _, _)
SumField(ids, balances, field) ==
    IF ids = {} THEN 0
    ELSE LET id == CHOOSE i \in ids : TRUE
         IN  balances[id][field] + SumField(ids \ {id}, balances, field)

\* `let mut min_synced_block_index = network_block_height - 1;` in u64,
\* when it does not panic.
InitialMinSynced(network_block_height) == (network_block_height - 1) % U64Mod

\* The fold of the loop over the spend-capable accounts.
MinSynced(network_block_height, account_rows) ==
    Min({InitialMinSynced(network_block_height)}
        \cup {saturating_sub(AsU64(account_rows[id]), 1) : id \in DOMAIN account_rows})

get_wallet_status(conn, oracle, overflow_checks) ==
    LET op == "get_wallet_status"
        ids == DOMAIN conn.accounts
        balances == [id \in ids |->
                        get_balance_inner(id, None, conn, overflow_checks)]
        unspent == SumField(ids, balances, "unspent")
        pending == SumField(ids, balances, "pending")
        spent == SumField(ids, balances, "spent")
        secreted == SumField(ids, balances, "secreted")
        orphaned == SumField(ids, balances, "orphaned")
    IN  IF ~oracle.net_ok
        THEN ErrorReply(op, None, "NetworkBlockHeight", oracle)
        ELSE IF overflow_checks /\ oracle.height = 0 THEN PanicReply(op, None)
        ELSE IF \E id \in ids : balances[id].tag = "panic"
             THEN PanicReply(op, None)
        ELSE IF /\ overflow_checks
                /\ \E x \in {unspent, pending, spent, secreted, orphaned} :
                       x >= U128Mod
             THEN PanicReply(op, None)
        ELSE IF ~oracle.local_ok THEN ErrorReply(op, None, "LedgerDB", oracle)
        ELSE [kind |-> "wallet_status", op |-> op, arg |-> None,
              status |-> [unspent |-> unspent % U128Mod,
                          pending |-> pending % U128Mod,
                          spent |-> spent % U128Mod,
                          secreted |-> secreted % U128Mod,
                          orphaned |-> orphaned % U128Mod,
                          network_block_height |-> oracle.height,
                          min_synced_block_index |->
                              MinSynced(oracle.height, conn.accounts),
                          account_ids |-> ids,
                          account_map |-> conn.accounts,
                          view_only_account_ids |->
                              DOMAIN conn.view_only_accounts,
                          view_only_account_map |-> conn.view_only_accounts]]

(***************************************************************************)
(* The writers: the account and address services and the sync pipeline.    *)
(* Calls and writes take turns: a write happens between two exchanges.     *)
(***************************************************************************)
Idle == reply = NoReply

NoCall == [pc |-> "idle"]

\* A write falls between two exchanges or, while a call is between its
\* reads, among them.
MayWrite ==
    /\ Idle
    /\ inflight.pc # "idle" => Cardinality(inflight.seen) <= MaxInterleavedWrites

\* The tables as the write leaves them are one more state of the store that
\* existed during the running call.
NoteWrite ==
    inflight' = IF inflight.pc = "idle" THEN inflight
                ELSE [inflight EXCEPT !.seen = @ \cup {Conn'}]

TxoCount == BagCardinality(txos) + BagCardinality(view_only_txos)

ReplaceRow(B, old, new) == (B (-) SetToBag({old})) (+) SetToBag({new})

Consumption == {<<"none", "observed">>, <<"observed", "confirmed">>,
                <<"none", "confirmed">>}

\* import_account_from_legacy_root_entropy: the account with its main
\* subaddress, nothing scanned yet.
ImportAccount(id) ==
    /\ MayWrite
    /\ id \notin DOMAIN accounts
    /\ accounts' = [x \in DOMAIN accounts \cup {id} |->
                        IF x = id THEN 0 ELSE accounts[x]]
    /\ assigned_subaddresses' =
           assigned_subaddresses \cup {<<id, DEFAULT_SUBADDRESS_INDEX>>}
    /\ UNCHANGED reply
    /\ UNCHANGED <<view_only_accounts, view_only_subaddresses, txos,
                   view_only_txos>>
    /\ NoteWrite

ImportViewOnlyAccount(id) ==
    /\ MayWrite
    /\ id \notin DOMAIN view_only_accounts
    /\ view_only_accounts' = [x \in DOMAIN view_only_accounts \cup {id} |->
                                  IF x = id THEN 0 ELSE view_only_accounts[x]]
    /\ view_only_subaddresses' =
           view_only_subaddresses \cup {<<id, DEFAULT_SUBADDRESS_INDEX>>}
    /\ UNCHANGED reply
    /\ UNCHANGED <<accounts, assigned_subaddresses, txos, view_only_txos>>
    /\ NoteWrite

\* assign_address_for_account: the next subaddress becomes tracked.
AssignAddress(address) ==
    /\ MayWrite
    /\ address[1] \in DOMAIN accounts
    /\ address \notin assigned_subaddresses
    /\ assigned_subaddresses' = assigned_subaddresses \cup {address}
    /\ UNCHANGED reply
    /\ UNCHANGED <<accounts, view_only_accounts, view_only_subaddresses, txos,
                   view_only_txos>>
    /\ NoteWrite

ImportSubaddress(address) ==
    /\ MayWrite
    /\ address[1] \in DOMAIN view_only_accounts
    /\ address \notin view_only_subaddresses
    /\ view_only_subaddresses' = view_only_subaddresses \cup {address}
    /\ UNCHANGED reply
    /\ UNCHANGED <<accounts, view_only_accounts, assigned_subaddresses, txos,
                   view_only_txos>>
    /\ NoteWrite

\* The sync pipeline finds an output of the account in a block.
ReceiveTxo(id, index, value) ==
    /\ MayWrite
    /\ id \in DOMAIN accounts
    /\ TxoCount < MaxTxos
    /\ txos' = txos (+) SetToBag({[account_id_hex |-> id,
                                    subaddress_index |-> index,
                                    value |-> value,
                                    consumed |-> "none",
                                    secreted |-> FALSE]})
    /\ UNCHANGED reply
    /\ UNCHANGED <<accounts, view_only_accounts, assigned_subaddresses,
                   view_only_subaddresses, view_only_txos>>
    /\ NoteWrite

\* ViewOnlyTxo::create
ReceiveViewOnlyTxo(id, index, value) ==
    /\ MayWrite
    /\ id \in DOMAIN view_only_accounts
    /\ TxoCount < MaxTxos
    /\ view_only_txos' =
           view_only_txos (+) SetToBag({[account_id_hex |-> id,
                                         subaddress_index |-> index,
                                         value |-> value,
                                         consumed |-> "none"]})
    /\ UNCHANGED reply
    /\ UNCHANGED <<accounts, view_only_accounts, assigned_subaddresses,
                   view_only_subaddresses, txos>>
    /\ NoteWrite

\* A transaction built by the account pays out to a foreign address.
MintSecretedTxo(id, value) ==
    /\ MayWrite
    /\ id \in DOMAIN accounts
    /\ TxoCount < MaxTxos
    /\ txos' = txos (+) SetToBag({[account_id_hex |-> id,
                                    subaddress_index |-> NoSubaddress,
                                    value |-> value,
                                    consumed |-> "none",
                                    secreted |-> TRUE]})
    /\ UNCHANGED reply
    /\ UNCHANGED <<accounts, view_only_accounts, assigned_subaddresses,
                   view_only_subaddresses, view_only_txos>>
    /\ NoteWrite

\* The consumption of an output at a tracked subaddress is observed
\* (pending) or confirmed (spent).
ConsumeTxo(t, step) ==
    /\ MayWrite
    /\ t \in DOMAIN txos
    /\ ~t.secreted
    /\ t.subaddress_index \in
          TrackedIndexes(assigned_subaddresses, t.account_id_hex)
    /\ t.consumed = step[1]
    /\ txos' = ReplaceRow(txos, t, [t EXCEPT !.consumed = step[2]])
    /\ UNCHANGED reply
    /\ UNCHANGED <<accounts, view_only_accounts, assigned_subaddresses,
                   view_only_subaddresses, view_only_txos>>
    /\ NoteWrite

ConsumeViewOnlyTxo(t, step) ==
    /\ MayWrite
    /\ t \in DOMAIN view_only_txos
    /\ t.subaddress_index \in
          TrackedIndexes(view_only_subaddresses, t.account_id_hex)
    /\ t.consumed = step[1]
    /\ view_only_txos' =
           ReplaceRow(view_only_txos, t, [t EXCEPT !.consumed = step[2]])
    /\ UNCHANGED reply
    /\ UNCHANGED <<accounts, view_only_accounts, assigned_subaddresses,
                   view_only_subaddresses, txos>>
    /\ NoteWrite

\* The sync pipeline has scanned one more block for the account.
SyncAccount(id) ==
    /\ MayWrite
    /\ id \in DOMAIN accounts
    /\ accounts[id] < MaxBlock
    /\ accounts' = [accounts EXCEPT ![id] = @ + 1]
    /\ UNCHANGED reply
    /\ UNCHANGED <<view_only_accounts, assigned_subaddresses,
                   view_only_subaddresses, txos, view_only_txos>>
    /\ NoteWrite

SyncViewOnlyAccount(id) ==
    /\ MayWrite
    /\ id \in DOMAIN view_only_accounts
    /\ view_only_accounts[id] < MaxBlock
    /\ view_only_accounts' = [view_only_accounts EXCEPT ![id] = @ + 1]
    /\ UNCHANGED reply
    /\ UNCHANGED <<accounts, assigned_subaddresses,
                   view_only_subaddresses, txos, view_only_txos>>
    /\ NoteWrite

(***************************************************************************)
(* The calls.  Each reads the tables and answers; the caller then takes    *)
(* the reply.                                                              *)
(***************************************************************************)
\* Variant: the call moves the sync cursor of the account it reports on.
CallGetBalanceForAccountTouching(id, oracle, overflow_checks) ==
    /\ Idle /\ inflight.pc = "idle"
    /\ reply' = get_balance_for_account(id, Conn, oracle, overflow_checks)
    /\ accounts' = [a \in DOMAIN accounts |->
                       IF a = id /\ accounts[a] < MaxBlock
                       THEN accounts[a] + 1 ELSE accounts[a]]
    /\ UNCHANGED <<view_only_accounts, assigned_subaddresses,
                   view_only_subaddresses, txos, view_only_txos, inflight>>

CallGetBalanceForAccount(id, oracle, overflow_checks) ==
    /\ Idle /\ inflight.pc = "idle"
    /\ reply' = get_balance_for_account(id, Conn, oracle, overflow_checks)
    /\ UNCHANGED <<store, inflight>>

CallGetBalanceForViewOnlyAccount(id, oracle, overflow_checks) ==
    /\ Idle /\ inflight.pc = "idle"
    /\ reply' = get_balance_for_view_only_account(id, Conn, oracle, overflow_checks)
    /\ UNCHANGED <<store, inflight>>

CallGetBalanceForAddress(address, oracle, overflow_checks) ==
    /\ Idle /\ inflight.pc = "idle"
    /\ reply' = get_balance_for_address(address, Conn, oracle, overflow_checks)
    /\ UNCHANGED <<store, inflight>>

CallGetBalanceForViewOnlyAddress(address, oracle, overflow_checks) ==
    /\ Idle /\ inflight.pc = "idle"
    /\ reply' = get_balance_for_view_only_address(address, Conn, oracle,
                                                  overflow_checks)
    /\ UNCHANGED <<store, inflight>>

CallGetWalletStatus(oracle, overflow_checks) ==
    /\ Idle /\ inflight.pc = "idle"
    /\ reply' = get_wallet_status(Conn, oracle, overflow_checks)
    /\ UNCHANGED <<store, inflight>>

\* The caller has the reply; the service is free for the next exchange.
TakeReply ==
    /\ ~Idle
    /\ reply' = NoReply
    /\ inflight' = NoCall
    /\ UNCHANGED store

(***************************************************************************)
(* get_balance_for_account read by read.  The connection is taken from the *)
(* pool without a transaction around the reads, so each list_* query sees  *)
(* the tables as they are when it runs, and the sync pipeline, on its own  *)
(* connection, may write between two of them.                              *)
(***************************************************************************)
BeginGetBalanceForAccount(id) ==
    /\ Idle /\ inflight.pc = "idle"
    /\ inflight' = [pc |-> "list_spendable", account_id |-> id,
                    max_spendable |-> 0, unspent |-> 0, spent |-> 0,
                    pending |-> 0, secreted |-> 0, orphaned |-> 0,
                    seen |-> {Conn}]
    /\ UNCHANGED <<store, reply>>

ReadSpendable ==
    /\ inflight.pc = "list_spendable"
    /\ inflight' = [inflight EXCEPT
           !.max_spendable = max_spendable_in_wallet(inflight.account_id, None, Conn),
           !.pc = "list_unspent"]
    /\ UNCHANGED <<store, reply>>

ReadUnspent ==
    /\ inflight.pc = "list_unspent"
    /\ inflight' = [inflight EXCEPT
           !.unspent = Balance_unspent(inflight.account_id, None, Conn),
           !.pc = "list_spent"]
    /\ UNCHANGED <<store, reply>>

ReadSpent ==
    /\ inflight.pc = "list_spent"
    /\ inflight' = [inflight EXCEPT
           !.spent = Balance_spent(inflight.account_id, None, Conn),
           !.pc = "list_pending"]
    /\ UNCHANGED <<store, reply>>

ReadPending ==
    /\ inflight.pc = "list_pending"
    /\ inflight' = [inflight EXCEPT
           !.pending = Balance_pending(inflight.account_id, None, Conn),
           !.pc = "list_secreted"]
    /\ UNCHANGED <<store, reply>>

ReadSecreted ==
    /\ inflight.pc = "list_secreted"
    /\ inflight' = [inflight EXCEPT
           !.secreted = Balance_secreted(inflight.account_id, None, Conn),
           !.pc = "list_orphaned"]
    /\ UNCHANGED <<store, reply>>

ReadOrphaned ==
    /\ inflight.pc = "list_orphaned"
    /\ inflight' = [inflight EXCEPT
           !.orphaned = Balance_orphaned(inflight.account_id, None, Conn),
           !.pc = "finish"]
    /\ UNCHANGED <<store, reply>>

\* The oracle's reads, Account::get and the reply.
FinishGetBalanceForAccount(oracle, overflow_checks) ==
    /\ inflight.pc = "finish"
    /\ reply' = account_balance_reply(
                    inflight.account_id,
                    InnerResult(inflight.unspent, inflight.max_spendable,
                                inflight.pending, inflight.spent,
                                inflight.secreted, inflight.orphaned,
                                overflow_checks),
                    Conn, oracle)
    /\ inflight' = [inflight EXCEPT !.pc = "done"]
    /\ UNCHANGED store

Init ==
    /\ accounts = <<>>
    /\ view_only_accounts = <<>>
    /\ assigned_subaddresses = {}
    /\ view_only_subaddresses = {}
    /\ txos = EmptyBag
    /\ view_only_txos = EmptyBag
    /\ reply = NoReply
    /\ inflight = NoCall

SpendWrite ==
    \/ \E id \in AccountIds : ImportAccount(id)
    \/ \E address \in AccountIds \X SubaddressIndexes : AssignAddress(address)
    \/ \E id \in AccountIds, index \in SubaddressIndexes, value \in StoredValues :
           ReceiveTxo(id, index, value)
    \/ \E id \in AccountIds, value \in StoredValues : MintSecretedTxo(id, value)
    \/ \E t \in DOMAIN txos, step \in Consumption : ConsumeTxo(t, step)

ViewOnlyWrite ==
    \/ \E id \in ViewOnlyAccountIds : ImportViewOnlyAccount(id)
    \/ \E address \in ViewOnlyAccountIds \X SubaddressIndexes :
           ImportSubaddress(address)
    \/ \E id \in ViewOnlyAccountIds, index \in SubaddressIndexes,
             value \in StoredValues : ReceiveViewOnlyTxo(id, index, value)
    \/ \E t \in DOMAIN view_only_txos, step \in Consumption :
           ConsumeViewOnlyTxo(t, step)

Write == SpendWrite \/ ViewOnlyWrite

\* The sync cursors move.
Sync ==
    \/ \E id \in AccountIds : SyncAccount(id)
    \/ \E id \in ViewOnlyAccountIds : SyncViewOnlyAccount(id)

SpendCall ==
    \E oracle \in OracleReadings, overflow_checks \in BOOLEAN :
        \/ \E id \in AllIds : CallGetBalanceForAccount(id, oracle, overflow_checks)
        \/ \E address \in Addresses :
               CallGetBalanceForAddress(address, oracle, overflow_checks)

ViewOnlyCall ==
    \E oracle \in OracleReadings, overflow_checks \in BOOLEAN :
        \/ \E id \in AllIds :
               CallGetBalanceForViewOnlyAccount(id, oracle, overflow_checks)
        \/ \E address \in Addresses :
               CallGetBalanceForViewOnlyAddress(address, oracle, overflow_checks)

WalletCall ==
    \E oracle \in OracleReadings, overflow_checks \in BOOLEAN :
        CallGetWalletStatus(oracle, overflow_checks)

(***************************************************************************)
(* Spec: the whole wallet with its outputs, all calls, cursors at rest.    *)
(***************************************************************************)
Next == Write \/ SpendCall \/ ViewOnlyCall \/ WalletCall \/ TakeReply

Spec == Init /\ [][Next]_vars

(***************************************************************************)
(* SpendSpec: the spend-capable accounts and the calls on them.            *)
(***************************************************************************)
SpendNext == SpendWrite \/ SpendCall \/ TakeReply

SpendSpec == Init /\ [][SpendNext]_vars

(***************************************************************************)
(* ViewOnlySpec: the view-only accounts and the calls on them.             *)
(***************************************************************************)
ViewOnlyNext == ViewOnlyWrite \/ ViewOnlyCall \/ TakeReply

ViewOnlySpec == Init /\ [][ViewOnlyNext]_vars

(***************************************************************************)
(* SyncSpec: accounts of both kinds with moving sync cursors, and the      *)
(* wallet status.                                                          *)
(***************************************************************************)
SyncNext ==
    \/ \E id \in AccountIds : ImportAccount(id)
    \/ \E id \in ViewOnlyAccountIds : ImportViewOnlyAccount(id)
    \/ \E id \in AccountIds, index \in SubaddressIndexes, value \in StoredValues :
           ReceiveTxo(id, index, value)
    \/ Sync
    \/ WalletCall
    \/ TakeReply

SyncSpec == Init /\ [][SyncNext]_vars

(***************************************************************************)
(* LookupSpec: identities of both kinds and the funds they receive, with   *)
(* the four balance calls.                                                 *)
(***************************************************************************)
LookupNext ==
    \/ \E id \in AccountIds : ImportAccount(id)
    \/ \E id \in ViewOnlyAccountIds : ImportViewOnlyAccount(id)
    \/ \E address \in AccountIds \X SubaddressIndexes : AssignAddress(address)
    \/ \E address \in ViewOnlyAccountIds \X SubaddressIndexes :
           ImportSubaddress(address)
    \/ \E id \in AccountIds, index \in SubaddressIndexes, value \in StoredValues :
           ReceiveTxo(id, index, value)
    \/ \E id \in ViewOnlyAccountIds, index \in SubaddressIndexes,
             value \in StoredValues : ReceiveViewOnlyTxo(id, index, value)
    \/ SpendCall
    \/ ViewOnlyCall
    \/ TakeReply

LookupSpec == Init /\ [][LookupNext]_vars

(***************************************************************************)
(* ConcSpec: get_balance_for_account read by read while the writers of the *)
(* spend-capable tables run.                                               *)
(***************************************************************************)
ConcNext ==
    \/ SpendWrite
    \/ \E id \in AccountIds : BeginGetBalanceForAccount(id)
    \/ ReadSpendable
    \/ ReadUnspent
    \/ ReadSpent
    \/ ReadPending
    \/ ReadSecreted
    \/ ReadOrphaned
    \/ \E oracle \in OracleReadings, overflow_checks \in BOOLEAN :
           FinishGetBalanceForAccount(oracle, overflow_checks)
    \/ TakeReply

ConcSpec == Init /\ [][ConcNext]_vars

(***************************************************************************)
(* Properties.                                                             *)
(***************************************************************************)
Replied(ops) == reply.kind # "none" /\ reply.op \in ops
ReturnedBalance(ops) == reply.kind = "balance" /\ reply.op \in ops

\* The amounts of all rows of a table that belong to the account.
TotalValue(table, account_id_hex) ==
    LET P(t) == t.account_id_hex = account_id_hex
    IN  SumValueAsU64(FilterBag(table, {u \in DOMAIN table : P(u)}))

LifecycleSum(b) == b.unspent + b.pending + b.spent + b.secreted + b.orphaned

\* C1: the five sums of the Balance returned by get_balance_for_account add
\* up to the total value of the account's outputs (each output counted once).
C1_PartitionInvariant ==
    ReturnedBalance({"get_balance_for_account"}) =>
        LifecycleSum(reply.balance) = TotalValue(txos, reply.arg)

\* C2: every Balance returned by an address-scoped query has secreted = 0
\* and orphaned = 0.
C2_AddressScopeZeroing ==
    ReturnedBalance({"get_balance_for_address",
                     "get_balance_for_view_only_address"}) =>
        reply.balance.secreted = 0 /\ reply.balance.orphaned = 0

\* C3: every Balance returned by a view-only query has max_spendable = 0 and
\* secreted = 0.
C3_ViewOnlyZeroSpend ==
    ReturnedBalance({"get_balance_for_view_only_account",
                     "get_balance_for_view_only_address"}) =>
        reply.balance.max_spendable = 0 /\ reply.balance.secreted = 0

\* A view-only query has returned a Balance over unspent funds.
C3_Witness ==
    /\ ReturnedBalance({"get_balance_for_view_only_account",
                        "get_balance_for_view_only_address"})
    /\ reply.balance.unspent > 1

LifecycleFields == {"unspent", "pending", "spent", "secreted", "orphaned"}

\* The whole-account value get_balance_for_account reports for the account.
WholeAccount(id) == get_balance_inner(id, None, Conn, FALSE)

RECURSIVE SumWholeAccounts(_, _)
SumWholeAccounts(ids, field) ==
    IF ids = {} THEN 0
    ELSE LET id == CHOOSE i \in ids : TRUE
         IN  WholeAccount(id)[field] + SumWholeAccounts(ids \ {id}, field)

\* C5: each total of a returned WalletStatus is the sum of the whole-account
\* values of the spend-capable accounts alone (so view-only outputs do not
\* move it), and the view-only accounts are in view_only_account_map.
C5_WalletTotalsExcludeViewOnly ==
    reply.kind = "wallet_status" =>
        /\ \A f \in LifecycleFields :
               reply.status[f] = SumWholeAccounts(DOMAIN accounts, f)
        /\ reply.status.view_only_account_map = view_only_accounts

\* C6: with at least one account, the returned min_synced_block_index is the
\* minimum over the accounts of next_block_index - 1 saturating at zero,
\* whatever the network height.
C6_MinSyncedIsAccountMinimum ==
    (reply.kind = "wallet_status" /\ DOMAIN accounts # {}) =>
        reply.status.min_synced_block_index =
            Min({saturating_sub(accounts[id], 1) : id \in DOMAIN accounts})

\* C7: in a returned WalletStatus, min_synced_block_index is at most
\* next_block_index - 1 (saturating) of every account of account_map and of
\* view_only_account_map.
C7_MonotonicSyncCursor ==
    reply.kind = "wallet_status" =>
        LET st == reply.status
        IN  /\ \A id \in DOMAIN st.account_map :
                   st.min_synced_block_index
                       <= saturating_sub(st.account_map[id], 1)
            /\ \A id \in DOMAIN st.view_only_account_map :
                   st.min_synced_block_index
                       <= saturating_sub(st.view_only_account_map[id], 1)

\* C8: on a wallet without accounts, get_wallet_status (the oracle
\* answering) returns min_synced_block_index = network_block_height - 1,
\* all five sums zero and empty account maps.
C8_EmptyWallet ==
    ( /\ Replied({"get_wallet_status"})
      /\ reply.kind # "error"
      /\ DOMAIN accounts = {}
      /\ DOMAIN view_only_accounts = {} ) =>
        /\ reply.kind = "wallet_status"
        /\ reply.status.min_synced_block_index
               = reply.status.network_block_height - 1
        /\ \A f \in LifecycleFields : reply.status[f] = 0
        /\ DOMAIN reply.status.account_map = {}
        /\ DOMAIN reply.status.view_only_account_map = {}

OracleUp == [net_ok |-> TRUE, height |-> 0, local_ok |-> TRUE]

AddressesOf(account_id_hex) ==
    {a \in assigned_subaddresses : a[1] = account_id_hex}

AddressBalance(address) ==
    get_balance_for_address(address, Conn, OracleUp, FALSE).balance

RECURSIVE SumOverAddresses(_, _)
SumOverAddresses(addresses, field) ==
    IF addresses = {} THEN 0
    ELSE LET a == CHOOSE x \in addresses : TRUE
         IN  AddressBalance(a)[field]
             + SumOverAddresses(addresses \ {a}, field)

\* C9: for each of unspent, pending and spent, the value of
\* get_balance_for_account is the sum of get_balance_for_address over the
\* tracked addresses of the account.
C9_NoDoubleCountingAcrossScopes ==
    ReturnedBalance({"get_balance_for_account"}) =>
        \A f \in {"unspent", "pending", "spent"} :
            reply.balance[f] = SumOverAddresses(AddressesOf(reply.arg), f)

\* An account balance over two tracked addresses that both hold funds, some
\* of them pending or spent.
C9_Witness ==
    /\ ReturnedBalance({"get_balance_for_account"})
    /\ \A a \in {reply.arg} \X SubaddressIndexes :
           /\ a \in assigned_subaddresses
           /\ AddressBalance(a).unspent + AddressBalance(a).pending
                 + AddressBalance(a).spent > 0
    /\ reply.balance.pending + reply.balance.spent > 0

BalanceOps == {"get_balance_for_account", "get_balance_for_view_only_account",
               "get_balance_for_address", "get_balance_for_view_only_address"}

NotFoundErrors == {"Database(AccountNotFound)",
                   "Database(ViewOnlyAccountNotFound)",
                   "Database(AssignedSubaddressNotFound)",
                   "Database(ViewOnlySubaddressNotFound)"}

\* The identity the last call was about does not resolve in the store.
Unresolved ==
    /\ Replied(BalanceOps)
    /\ CASE reply.op = "get_balance_for_account" ->
               reply.arg \notin DOMAIN accounts
         [] reply.op = "get_balance_for_view_only_account" ->
               reply.arg \notin DOMAIN view_only_accounts
         [] reply.op = "get_balance_for_address" ->
               reply.arg \notin assigned_subaddresses
         [] reply.op = "get_balance_for_view_only_address" ->
               reply.arg \notin view_only_subaddresses

AtomicOn(conn) ==
    LET r == get_balance_for_account(reply.arg, conn, OracleUp, FALSE)
    IN  /\ r.kind = "balance"
        /\ \A f \in LifecycleFields : reply.balance[f] = r.balance[f]

\* C4: the Balance a call returns while the sync pipeline writes is the
\* Balance of one state of the store that existed during the call.
C4_SnapshotConsistency ==
    (inflight.pc = "done" /\ reply.kind = "balance") =>
        \E conn \in inflight.seen : AtomicOn(conn)

(***************************************************************************)
(* SpendableSpec: one account holding more unspent outputs than one        *)
(* transaction takes, with the two balance calls on it.  The store starts  *)
(* as manually_sync_account leaves it after a seeded ledger: a number of   *)
(* small outputs and a few large ones at the main subaddress, and possibly *)
(* one at the next subaddress, which is not tracked yet.                   *)
(***************************************************************************)
MaxSmallTxos == 17

ReceivedRow(id, index, value) ==
    [account_id_hex |-> id, subaddress_index |-> index, value |-> value,
     consumed |-> "none", secreted |-> FALSE]

\* The bag that holds counts[r] copies of each row r (none when it is 0).
BagOfCounts(counts) ==
    [r \in {x \in DOMAIN counts : counts[x] > 0} |-> counts[r]]

SeededLedgers ==
    LET small == ReceivedRow("a1", DEFAULT_SUBADDRESS_INDEX, 1)
        large == ReceivedRow("a1", DEFAULT_SUBADDRESS_INDEX, 0 - 2)
        other == ReceivedRow("a1", 1, 1)
    IN  {BagOfCounts((small :> n) @@ (large :> m) @@ (other :> k)) :
            n \in 0..MaxSmallTxos, m \in 0..MaxTxos, k \in 0..1}

SpendableInit ==
    /\ accounts = [id \in {"a1"} |-> 0]
    /\ view_only_accounts = <<>>
    /\ assigned_subaddresses = {<<"a1", DEFAULT_SUBADDRESS_INDEX>>}
    /\ view_only_subaddresses = {}
    /\ txos \in SeededLedgers
    /\ view_only_txos = EmptyBag
    /\ reply = NoReply
    /\ inflight = NoCall

SpendableNext ==
    \/ AssignAddress(<<"a1", 1>>)
    \/ \E t \in DOMAIN txos : ConsumeTxo(t, <<"none", "observed">>)
    \/ \E oracle \in OracleReadings, overflow_checks \in BOOLEAN :
           CallGetBalanceForAccount("a1", oracle, overflow_checks)
    \/ \E address \in {"a1"} \X SubaddressIndexes,
             oracle \in OracleReadings, overflow_checks \in BOOLEAN :
           CallGetBalanceForAddress(address, oracle, overflow_checks)
    \/ TakeReply

SpendableSpec == SpendableInit /\ [][SpendableNext]_vars

\* The Unspent outputs in the scope of the reply: unconsumed, not secreted,
\* at a tracked subaddress of the account, and at the address asked for.
UnspentInScope ==
    LET address_scoped == reply.op = "get_balance_for_address"
        id == IF address_scoped THEN reply.arg[1] ELSE reply.arg
    IN  FilterBag(txos,
            {t \in DOMAIN txos :
                /\ t.account_id_hex = id
                /\ t.consumed = "none"
                /\ ~t.secreted
                /\ <<id, t.subaddress_index>> \in assigned_subaddresses
                /\ address_scoped => t.subaddress_index = reply.arg[2]})

\* The value of the k largest outputs of bag B, amount by amount from the
\* largest down.
RECURSIVE LargestValue(_, _, _)
LargestValue(B, amounts, k) ==
    IF k = 0 \/ amounts = {} THEN 0
    ELSE LET v == CHOOSE x \in amounts : \A y \in amounts : y <= x
             held == BagCardinality(
                         FilterBag(B, {t \in DOMAIN B : AsU64(t.value) = v}))
             taken == IF held < k THEN held ELSE k
         IN  taken * v + LargestValue(B, amounts \ {v}, k - taken)

LargestInScope ==
    LargestValue(UnspentInScope, {AsU64(v) : v \in StoredValues}, MAX_INPUTS)

ClassByRule(t) ==
    IF t.consumed = "confirmed" THEN "spent"
    ELSE IF t.consumed = "observed" THEN "pending"
    ELSE IF <<t.account_id_hex, t.subaddress_index>> \in assigned_subaddresses
         THEN "unspent"
    ELSE "orphaned"

\* The classes whose account-scope query returns the output.
ClassesListing(t) ==
    LET id == t.account_id_hex
    IN  {c \in {"spent", "pending", "unspent", "orphaned"} :
            t \in DOMAIN (CASE c = "spent" -> Txo_list_spent(id, None, Conn)
                            [] c = "pending" -> Txo_list_pending(id, None, Conn)
                            [] c = "unspent" -> Txo_list_unspent(id, None, Conn)
                            [] c = "orphaned" -> Txo_list_orphaned(id, Conn))}

ReceivedOutputs == {t \in DOMAIN txos : ~t.secreted}

\* The value of the received outputs of the account that the rules class c.
ValueOfClass(account_id_hex, c) ==
    SumValueAsU64(FilterBag(txos,
        {t \in ReceivedOutputs :
            t.account_id_hex = account_id_hex /\ ClassByRule(t) = c}))

Inconsistent(t) ==
    /\ ~t.secreted
    /\ t.consumed # "none"
    /\ <<t.account_id_hex, t.subaddress_index>> \notin assigned_subaddresses

\* A row is written with a spent marker and no tracked subaddress.
StoreInconsistentTxo(id, index, value) ==
    /\ MayWrite
    /\ id \in DOMAIN accounts
    /\ <<id, index>> \notin assigned_subaddresses
    /\ TxoCount < MaxTxos
    /\ txos' = txos (+) SetToBag({[account_id_hex |-> id,
                                    subaddress_index |-> index,
                                    value |-> value,
                                    consumed |-> "confirmed",
                                    secreted |-> FALSE]})
    /\ UNCHANGED reply
    /\ UNCHANGED <<accounts, view_only_accounts, assigned_subaddresses,
                   view_only_subaddresses, view_only_txos>>
    /\ NoteWrite

InconsistentNext ==
    \/ \E id \in AccountIds : ImportAccount(id)
    \/ \E id \in AccountIds, index \in SubaddressIndexes, value \in StoredValues :
           ReceiveTxo(id, index, value)
    \/ \E id \in AccountIds, index \in SubaddressIndexes, value \in StoredValues :
           StoreInconsistentTxo(id, index, value)
    \/ SpendCall
    \/ WalletCall
    \/ TakeReply

InconsistentSpec == Init /\ [][InconsistentNext]_vars

\* The last query summed over an output with inconsistent fields.
OverInconsistentOutput ==
    \/ /\ Replied({"get_balance_for_account"})
       /\ reply.arg \in DOMAIN accounts
       /\ \E t \in DOMAIN txos : Inconsistent(t) /\ t.account_id_hex = reply.arg
    \/ /\ Replied({"get_wallet_status"})
       /\ \E t \in DOMAIN txos : Inconsistent(t)

\* C13: a balance or wallet-status query over an output whose stored fields
\* are inconsistent returns an InconsistentState error, not a Balance or
\* WalletStatus (the oracle answering, the sums not overflowing).
C13_InconsistentStateSurfaced ==
    ( /\ OverInconsistentOutput
      /\ reply.kind # "panic"
      /\ reply.kind = "error" => reply.oracle_ok ) =>
        reply.kind = "error" /\ reply.error = "InconsistentState"

(***************************************************************************)
(* Failing reads.  Every store query and oracle read of the service ends   *)
(* in `?`: an Err leaves the method at once, converted by the From impls.  *)
(* `failed` names the read that failed.                                    *)
(***************************************************************************)
StoreReads == {"list_spendable", "list_unspent", "list_spent", "list_pending",
               "list_secreted", "list_orphaned"}

StorageError == "Database(WalletDbError)"

\* Variant: the failed query counted as an empty list, the call going on.
FailReadSwallowed ==
    /\ inflight.pc \in StoreReads
    /\ inflight' = [pc |-> "finish", account_id |-> inflight.account_id,
                    max_spendable |-> 0, unspent |-> 0, spent |-> 0,
                    pending |-> 0, secreted |-> 0, orphaned |-> 0,
                    seen |-> inflight.seen, failed |-> inflight.pc]
    /\ UNCHANGED <<store, reply>>

\* A list_* query of get_balance_inner returns Err inside
\* get_balance_for_account.
FailRead ==
    /\ inflight.pc \in StoreReads
    /\ reply' = ErrorReply("get_balance_for_account", inflight.account_id,
                           StorageError, OracleUp)
    /\ inflight' = [pc |-> "done", failed |-> inflight.pc]
    /\ UNCHANGED store

(***************************************************************************)
(* get_wallet_status step by step: the network height, the account lists,  *)
(* one get_balance_inner per spend-capable account, the local height.      *)
(***************************************************************************)
BeginGetWalletStatus(oracle, overflow_checks) ==
    /\ Idle /\ inflight.pc = "idle"
    /\ IF ~oracle.net_ok
       THEN /\ reply' = ErrorReply("get_wallet_status", None,
                                   "NetworkBlockHeight", oracle)
            /\ inflight' = [pc |-> "done",
                            failed |-> "get_network_block_height"]
       ELSE IF overflow_checks /\ oracle.height = 0
       THEN /\ reply' = PanicReply("get_wallet_status", None)
            /\ inflight' = [pc |-> "done"]
       ELSE /\ reply' = reply
            /\ inflight' = [pc |-> "wallet_loop", oracle |-> oracle,
                            overflow_checks |-> overflow_checks,
                            todo |-> DOMAIN accounts,
                            account_rows |-> accounts,
                            view_only_account_rows |-> view_only_accounts,
                            unspent |-> 0, pending |-> 0, spent |-> 0,
                            secreted |-> 0, orphaned |-> 0,
                            seen |-> {Conn}]
    /\ UNCHANGED store

\* One turn of the loop over the accounts.
WalletSumAccount(id) ==
    /\ inflight.pc = "wallet_loop"
    /\ id \in inflight.todo
    /\ LET balance == get_balance_inner(id, None, Conn, inflight.overflow_checks)
           overflows(f) == /\ inflight.overflow_checks
                           /\ inflight[f] + balance[f] >= U128Mod
       IN  IF \/ balance.tag = "panic"
              \/ \E f \in {"unspent", "pending", "spent", "secreted",
                           "orphaned"} : overflows(f)
           THEN /\ reply' = PanicReply("get_wallet_status", None)
                /\ inflight' = [pc |-> "done"]
           ELSE /\ reply' = reply
                /\ inflight' = [inflight EXCEPT
                       !.todo = @ \ {id},
                       !.unspent = (@ + balance.unspent) % U128Mod,
                       !.pending = (@ + balance.pending) % U128Mod,
                       !.spent = (@ + balance.spent) % U128Mod,
                       !.secreted = (@ + balance.secreted) % U128Mod,
                       !.orphaned = (@ + balance.orphaned) % U128Mod]
    /\ UNCHANGED store

\* get_balance_inner of one account of the loop returns Err.
WalletFailRead(id) ==
    /\ inflight.pc = "wallet_loop"
    /\ id \in inflight.todo
    /\ reply' = ErrorReply("get_wallet_status", None, StorageError, OracleUp)
    /\ inflight' = [pc |-> "done", failed |-> "get_balance_inner"]
    /\ UNCHANGED store

\* The view-only loop, ledger_db.num_blocks() and Ok(WalletStatus { .. }).
FinishGetWalletStatus ==
    /\ inflight.pc = "wallet_loop"
    /\ inflight.todo = {}
    /\ IF ~inflight.oracle.local_ok
       THEN /\ reply' = ErrorReply("get_wallet_status", None, "LedgerDB",
                                   inflight.oracle)
            /\ inflight' = [pc |-> "done", failed |-> "num_blocks"]
       ELSE /\ reply' =
                [kind |-> "wallet_status", op |-> "get_wallet_status",
                 arg |-> None,
                 status |-> [unspent |-> inflight.unspent,
                             pending |-> inflight.pending,
                             spent |-> inflight.spent,
                             secreted |-> inflight.secreted,
                             orphaned |-> inflight.orphaned,
                             network_block_height |-> inflight.oracle.height,
                             min_synced_block_index |->
                                 MinSynced(inflight.oracle.height,
                                           inflight.account_rows),
                             account_ids |-> DOMAIN inflight.account_rows,
                             account_map |-> inflight.account_rows,
                             view_only_account_ids |->
                                 DOMAIN inflight.view_only_account_rows,
                             view_only_account_map |->
                                 inflight.view_only_account_rows]]
            /\ inflight' = [pc |-> "done"]
    /\ UNCHANGED store

(***************************************************************************)
(* ErrSpec: the two step-by-step calls with reads that may fail.           *)
(***************************************************************************)
ErrNext ==
    \/ \E id \in AccountIds : ImportAccount(id)
    \/ \E id \in AccountIds, index \in SubaddressIndexes, value \in StoredValues :
           ReceiveTxo(id, index, value)
    \/ \E id \in AccountIds : BeginGetBalanceForAccount(id)
    \/ ReadSpendable
    \/ ReadUnspent
    \/ ReadSpent
    \/ ReadPending
    \/ ReadSecreted
    \/ ReadOrphaned
    \/ FailRead
    \/ \E oracle \in OracleReadings, overflow_checks \in BOOLEAN :
           FinishGetBalanceForAccount(oracle, overflow_checks)
    \/ \E oracle \in OracleReadings, overflow_checks \in BOOLEAN :
           BeginGetWalletStatus(oracle, overflow_checks)
    \/ \E id \in AccountIds : WalletSumAccount(id)
    \/ \E id \in AccountIds : WalletFailRead(id)
    \/ FinishGetWalletStatus
    \/ TakeReply

ErrSpec == Init /\ [][ErrNext]_vars

\* A read of the running call has failed.
ReadFailed == "failed" \in DOMAIN inflight

\* The error the From impls make of the failed read.
ErrorOfFailedRead ==
    CASE inflight.failed = "get_network_block_height" -> "NetworkBlockHeight"
      [] inflight.failed = "num_blocks" -> "LedgerDB"
      [] OTHER -> StorageError

\* C14: once a read of a balance query or of get_wallet_status has failed,
\* the call is over: its reply is that read's error, wrapped, not a Balance
\* or WalletStatus; and the call makes no further step, so the read is not
\* tried again.
C14_ErrorsAbortWithoutRetry ==
    /\ [](ReadFailed =>
            /\ inflight.pc = "done"
            /\ reply.kind = "error"
            /\ reply.error = ErrorOfFailedRead)
    /\ [][ReadFailed => inflight' \in {inflight, NoCall}]_vars

\* The summation of one account has failed in the loop of get_wallet_status
\* over a wallet of two accounts that hold outputs.
C14_Witness ==
    /\ ReadFailed
    /\ inflight.failed = "get_balance_inner"
    /\ Cardinality(DOMAIN accounts) = 2
    /\ BagCardinality(txos) = MaxTxos
    /\ reply.op = "get_wallet_status"

(***************************************************************************)
(* get_network_status and ReadOnlySpec: accounts and funds of both kinds,   *)
(* moving sync cursors, and all six calls of the service.                  *)
(***************************************************************************)
get_network_status(oracle) ==
    LET op == "get_network_status"
    IN  IF ~oracle.net_ok
        THEN ErrorReply(op, None, "NetworkBlockHeight", oracle)
        ELSE IF ~oracle.local_ok THEN ErrorReply(op, None, "LedgerDB", oracle)
        ELSE [kind |-> "network_status", op |-> op, arg |-> None,
              status |-> [network_block_height |-> oracle.height]]

CallGetNetworkStatus(oracle) ==
    /\ Idle /\ inflight.pc = "idle"
    /\ reply' = get_network_status(oracle)
    /\ UNCHANGED <<store, inflight>>

NetworkCall == \E oracle \in OracleReadings : CallGetNetworkStatus(oracle)

ReadOnlyNext ==
    \/ \E id \in AccountIds : ImportAccount(id)
    \/ \E id \in ViewOnlyAccountIds : ImportViewOnlyAccount(id)
    \/ \E id \in AccountIds, index \in SubaddressIndexes, value \in StoredValues :
           ReceiveTxo(id, index, value)
    \/ \E id \in ViewOnlyAccountIds, index \in SubaddressIndexes,
             value \in StoredValues : ReceiveViewOnlyTxo(id, index, value)
    \/ \E id \in AccountIds : SyncAccount(id)
    \/ SpendCall
    \/ ViewOnlyCall
    \/ WalletCall
    \/ NetworkCall
    \/ TakeReply

ReadOnlySpec == Init /\ [][ReadOnlyNext]_vars

\* A step in which one of the six aggregation calls answers, with a value
\* or with an error.
AggregationCall ==
    /\ reply = NoReply
    /\ reply' # NoReply
    /\ reply'.op \in BalanceOps \cup {"get_network_status", "get_wallet_status"}

\* C15: no step of get_balance_for_account, get_balance_for_address,
\* get_balance_for_view_only_account, get_balance_for_view_only_address,
\* get_network_status or get_wallet_status, succeeding or failing, changes
\* an account, subaddress or output record or a sync cursor.
C15_ReadOnlyAggregation == [][AggregationCall => UNCHANGED store]_vars

\* A call has answered over a store that holds accounts and outputs of both
\* kinds and a sync cursor that has moved.
C15_Witness ==
    /\ reply.kind \in {"balance", "wallet_status"}
    /\ DOMAIN accounts # {} /\ DOMAIN view_only_accounts # {}
    /\ BagCardinality(txos) > 0 /\ BagCardinality(view_only_txos) > 0
    /\ \E id \in DOMAIN accounts : accounts[id] > 0

(***************************************************************************)
(* json_rpc_request: a JsonRPCRequest is turned into a JsonCommandRequest. *)
(* The variants kept here are the three a deprecated name stands for, some *)
(* whose own name begins with get_all_, and some of the balance service.   *)
(***************************************************************************)
MaxRequestId == 2

\* The fields of the variants: required ones and Option ones.
Variants ==
    [get_addresses_for_account |->
         [required |-> {"account_id"}, optional |-> {"offset", "limit"}],
     get_transaction_logs_for_account |->
         [required |-> {"account_id"},
          optional |-> {"offset", "limit", "min_block_index",
                        "max_block_index"}],
     get_txos_for_account |->
         [required |-> {"account_id"}, optional |-> {"offset", "limit"}],
     get_all_txos_for_address |->
         [required |-> {"address"}, optional |-> {}],
     get_all_accounts |-> [required |-> {}, optional |-> {}],
     get_balance_for_account |->
         [required |-> {"account_id"}, optional |-> {}],
     get_wallet_status |-> [required |-> {}, optional |-> {}]]

Methods ==
    DOMAIN Variants
        \cup {"get_all_addresses_for_account",
              "get_all_transaction_logs_for_account",
              "get_all_txos_for_account", "get_all_balances"}

\* `params`: absent, or a JSON object.
Params ==
    {None,
     [account_id |-> "a1"],
     [account_id |-> "a1", limit |-> "1"],
     [address |-> "b58", limit |-> "1"]}

JsonRPCRequest ==
    [method : Methods, params : Params, jsonrpc : {"2.0"}, id : 0..MaxRequestId]

method_alias(m) ==
    CASE m = "get_all_addresses_for_account" -> "get_addresses_for_account"
      [] m = "get_all_transaction_logs_for_account" ->
             "get_transaction_logs_for_account"
      [] m = "get_all_txos_for_account" -> "get_txos_for_account"
      [] OTHER -> m

\* serde_json::from_value into the enum tagged by "method" with content
\* "params": the variant of that name, its fields taken from the object
\* (an absent Option field is None, keys that are no field are skipped);
\* Err for a name that is no variant, for a missing required field, for an
\* object given to a unit variant and for no object given to a struct one.
from_value(src_json) ==
    LET method == src_json.method
        params == src_json.params
    IN  IF method \notin DOMAIN Variants THEN [tag |-> "Err"]
        ELSE LET v == Variants[method]
                 fields == v.required \cup v.optional
             IN  IF fields = {}
                 THEN IF params = None
                      THEN [tag |-> "Ok", command |-> method, fields |-> None]
                      ELSE [tag |-> "Err"]
                 ELSE IF params = None \/ ~(v.required \subseteq DOMAIN params)
                      THEN [tag |-> "Err"]
                 ELSE [tag |-> "Ok", command |-> method,
                       fields |-> [f \in fields |->
                                      IF f \in DOMAIN params THEN params[f]
                                      ELSE None]]

\* Variant: the request decoded under the name it came with.
try_from_without_alias(src) == from_value(src)

\* TryFrom<&JsonRPCRequest> for JsonCommandRequest
try_from(src) == from_value([src EXCEPT !.method = method_alias(src.method)])

CallTryFrom(src) ==
    /\ Idle /\ inflight.pc = "idle"
    /\ reply' = [kind |-> "command", op |-> "try_from", arg |-> src,
                 result |-> try_from(src)]
    /\ UNCHANGED <<store, inflight>>

RpcNext ==
    \/ \E src \in JsonRPCRequest : CallTryFrom(src)
    \/ TakeReply

RpcSpec == Init /\ [][RpcNext]_vars

\* The deprecated names and the names they stand for.
Deprecated ==
    {<<"get_all_addresses_for_account", "get_addresses_for_account">>,
     <<"get_all_transaction_logs_for_account",
       "get_transaction_logs_for_account">>,
     <<"get_all_txos_for_account", "get_txos_for_account">>}

\* C16: a request under a deprecated name converts to what the same request
\* under the current name converts to; method_alias leaves every other name
\* as it is; and applied twice it gives what it gives applied once.
C16_AliasResolvedBeforeDecoding ==
    Replied({"try_from"}) =>
        LET src == reply.arg
            m == src.method
        IN  /\ \A d \in Deprecated :
                   m = d[1] =>
                       /\ method_alias(m) = d[2]
                       /\ reply.result = try_from([src EXCEPT !.method = d[2]])
            /\ (\A d \in Deprecated : m # d[1]) => method_alias(m) = m
            /\ method_alias(method_alias(m)) = method_alias(m)

\* A request under a deprecated name has been converted to a command.
C16_Witness ==
    /\ Replied({"try_from"})
    /\ reply.arg.method = "get_all_transaction_logs_for_account"
    /\ reply.result.tag = "Ok"
    /\ reply.result.command = "get_transaction_logs_for_account"
    /\ reply.result.fields.limit = "1"

(***************************************************************************)
(* Value widening and the sync index.                                      *)
(***************************************************************************)
\* The outputs the reply's sum f is taken over.
CountedIn(f) ==
    LET address_scoped == reply.op \in {"get_balance_for_address",
                                        "get_balance_for_view_only_address"}
        id == IF address_scoped THEN reply.arg[1] ELSE reply.arg
        scope == IF address_scoped THEN reply.arg ELSE None
    IN  IF reply.op \in {"get_balance_for_account", "get_balance_for_address"}
        THEN CASE f = "unspent" -> Txo_list_unspent(id, scope, Conn)
               [] f = "pending" -> Txo_list_pending(id, scope, Conn)
               [] f = "spent" -> Txo_list_spent(id, scope, Conn)
               [] f = "secreted" ->
                      IF address_scoped THEN EmptyBag
                      ELSE Txo_list_secreted(id, Conn)
               [] f = "orphaned" ->
                      IF address_scoped THEN EmptyBag
                      ELSE Txo_list_orphaned(id, Conn)
        ELSE CASE f = "unspent" -> ViewOnlyTxo_list_unspent(id, scope, Conn)
               [] f = "pending" -> ViewOnlyTxo_list_pending(id, scope, Conn)
               [] f = "spent" -> ViewOnlyTxo_list_spent(id, scope, Conn)
               [] f = "secreted" -> EmptyBag
               [] f = "orphaned" -> ViewOnlyTxo_list_orphaned(id, Conn)

\* C17: in every returned Balance, each of the five sums is the sum of the
\* amounts v (0 <= v < 2^64) of the outputs counted in it, amounts with the
\* top bit set included: nothing is sign-extended and no sum wraps.
C17_UniformValueWidening ==
    ReturnedBalance(BalanceOps) =>
        \A f \in LifecycleFields :
            reply.balance[f] = SumValueAsU64(CountedIn(f))

\* C18: the min_synced_block_index of a returned WalletStatus is never
\* greater than network_block_height, a height of 0 included (no
\* wraparound of network_block_height - 1).
C18_NoWraparoundInSyncIndex ==
    reply.kind = "wallet_status" =>
        reply.status.min_synced_block_index
            <= reply.status.network_block_height
====
